---- MODULE Spec2Model ----
(***************************************************************************)
(* A model of src/git.py (class GitHubAutoCommit and main).                *)
(*                                                                         *)
(* The script drives the git command line.  Every git command is a step    *)
(* whose exit status is either decided by the repository state (a branch   *)
(* that already exists, a branch that is checked out) or left open (a      *)
(* conflict, a rejected push); the open ones are choices of the step.      *)
(* random.* calls are choices over the values the call can return.         *)
(*                                                                         *)
(* Three specifications share the variables:                               *)
(*   SpecBackfill  backfill_commits / backfill_year / backfill_date_range  *)
(*   SpecCommit    main, choice 1 (add_activity, git_commit, git_push),    *)
(*                 and git_push / git_pull called with any arguments       *)
(*   SpecThin      remove_random_commits and thin_out_commits              *)
(***************************************************************************)
EXTENDS Integers, Sequences, FiniteSets, TLC

VARIABLES
    pc,        \* position of the running procedure
    bf,        \* backfill_*: parameters and loop variables
    cm,        \* create_multiple_commits: count, date, loop index
    dayCount,  \* commit attempts made by the running create_multiple_commits
    lastReq,   \* the append + commit request (commit_time) the last step made
    lastDay,   \* the day the last step finished: its date and its attempts
    file,      \* the activity file: whether it exists, and its lines
    index,     \* git index: the staged content of the activity file
    stash,     \* git stash stack: the saved contents, newest last
    untracked, \* whether the working tree holds other, untracked files
    branches,  \* git branches: name -> commits, oldest first
    head,      \* the checked-out branch ("" when HEAD is detached)
    nextHash,  \* the next commit gets this hash
    remote,    \* whether a remote is configured, and what was pushed to it
    cmds,      \* the git commands run so far, in order
    gc,        \* git_commit: message, date, and the value returned
    ps,        \* git_push / git_pull: arguments, locals, values returned
    rr         \* remove_random_commits: arguments, locals, value returned

schedVars == <<bf, cm, dayCount, lastReq, lastDay>>
repoVars == <<file, index, stash, untracked, branches, head, nextHash, remote>>
vars == <<pc, bf, cm, dayCount, lastReq, lastDay, file, index, stash,
          untracked, branches, head, nextHash, remote, cmds, gc, ps, rr>>

----------------------------------------------------------------------------
(* Bounds of the model *)

MaxDays == 7      \* days_back, and the width of the window of input dates
MaxCount == 2     \* largest max of commits_per_day_range
MaxCommits == 2   \* commits in the repository before the first rewrite

----------------------------------------------------------------------------
(* datetime: a proleptic Gregorian ordinal and a time of day.              *)

HourLo == 9
HourHi == 20
MinuteLo == 0
MinuteHi == 59
WeekendFrom == 5

IsLeap(y) == (y % 4 = 0) /\ ((y % 100 # 0) \/ (y % 400 = 0))

DaysBeforeYear(y) ==
    LET p == y - 1 IN 365 * p + (p \div 4) - (p \div 100) + (p \div 400)

DaysInMonth(y, m) ==
    IF m = 2 THEN (IF IsLeap(y) THEN 29 ELSE 28)
    ELSE IF m \in {4, 6, 9, 11} THEN 30 ELSE 31

RECURSIVE DaysBeforeMonth(_, _)
DaysBeforeMonth(y, m) ==
    IF m = 1 THEN 0 ELSE DaysBeforeMonth(y, m - 1) + DaysInMonth(y, m - 1)

\* datetime(y, m, d).toordinal()
ToOrdinal(y, m, d) == DaysBeforeYear(y) + DaysBeforeMonth(y, m) + d

\* datetime(y, m, d): midnight of that day
MkDate(y, m, d) ==
    [ord |-> ToOrdinal(y, m, d), hour |-> 0, minute |-> 0, second |-> 0,
     usec |-> 0]

\* datetime.weekday(): Monday is 0, Sunday is 6
Weekday(dt) == (dt.ord + 6) % 7

\* dt + timedelta(days=n)
PlusDays(dt, n) == [dt EXCEPT !.ord = dt.ord + n]

\* dt1 <= dt2
DtLeq(a, b) ==
    \/ a.ord < b.ord
    \/ /\ a.ord = b.ord
       /\ \/ a.hour < b.hour
          \/ /\ a.hour = b.hour
             /\ \/ a.minute < b.minute
                \/ a.minute = b.minute /\ a.second <= b.second

\* date.replace(hour=hour, minute=minute, second=0)
ReplaceTimeKeepsSecond(dt, h, m) == [dt EXCEPT !.hour = h, !.minute = m]
ReplaceTime(dt, h, m) == [dt EXCEPT !.hour = h, !.minute = m, !.second = 0]

\* datetime.strptime(s, '%Y-%m-%d') of a string written as <<y, m, d>>
Strptime(s) == MkDate(s[1], s[2], s[3])

----------------------------------------------------------------------------
(* Inputs of the backfill procedures *)

\* Monday 2024-02-26: the window of input dates crosses the leap day
WindowStart == ToOrdinal(2024, 2, 26)
WindowOrds == WindowStart .. (WindowStart + MaxDays - 1)

\* 'YYYY-MM-DD' strings of the days of the window
InputDates ==
    {s \in {2024} \X (2 .. 3) \X (1 .. 31) :
        /\ s[3] <= DaysInMonth(s[1], s[2])
        /\ ToOrdinal(s[1], s[2], s[3]) \in WindowOrds}

\* datetime.now(): a day of the window at some time of day
NowValues ==
    {[ord |-> o, hour |-> t[1], minute |-> t[2], second |-> t[3],
      usec |-> t[4]] :
        o \in WindowOrds, t \in {<<0, 0, 0, 0>>, <<23, 59, 59, 999999>>}}

\* datetime.now() when main runs a single commit: one day of the window
ClockValues == {t \in NowValues : t.ord = WindowStart}

Years == {2024}

\* commits_per_day_range tuples (min, max) with min <= max
CountRanges == {r \in (0 .. MaxCount) \X (0 .. MaxCount) : r[1] <= r[2]}

NoReq == [ord |-> 0, hour |-> 0, minute |-> 0, second |-> 0, committed |-> FALSE]
NoDay == [ord |-> 0, n |-> 0]
NoCm == [count |-> 0, date |-> MkDate(1, 1, 1), i |-> 0]

----------------------------------------------------------------------------
(* The repository, the activity file and the git commands                  *)

ActivityMessages ==
    {"Updated documentation", "Code review completed", "Bug fix implemented",
     "Performance optimization", "Feature enhancement",
     "Refactored code structure", "Added unit tests", "Updated dependencies",
     "Security patch applied", "UI improvements", "Database optimization",
     "API endpoint updated", "Configuration changes", "Dependency updates",
     "Code cleanup"}

\* timestamp.strftime("%Y-%m-%d %H:%M:%S"): the day and the time to the
\* second; the microseconds are not printed
Strftime(dt) == <<dt.ord, dt.hour, dt.minute, dt.second>>

\* f"[{timestamp_str}] {message}\n"
Line(dt, message) == [stamp |-> Strftime(dt), message |-> message]

\* "# GitHub Activity Log\n\n"
HeaderLines ==
    <<[stamp |-> <<>>, message |-> "# GitHub Activity Log"],
      [stamp |-> <<>>, message |-> ""]>>

NoDate == <<>>
\* git_commit not called yet.  before, entry and commits record the file
\* before the append, the file when git_commit is entered, and the commits
\* of the current branch when it is entered
NoGc ==
    [message |-> "", date |-> NoDate, ret |-> "none",
     before |-> <<>>, entry |-> <<>>, commits |-> <<>>]
NoFile == [exists |-> FALSE, lines |-> <<>>]

NoBranches == [b \in {} |-> <<>>]

\* the commits of the checked-out branch (none while it is unborn)
HeadCommits == IF head \in DOMAIN branches THEN branches[head] ELSE <<>>

\* the content of the activity file in the HEAD commit
HeadTree ==
    IF HeadCommits = <<>> THEN NoFile ELSE HeadCommits[Len(HeadCommits)].tree

\* git status --porcelain prints something
Dirty == file # HeadTree \/ index # HeadTree \/ untracked

\* the arguments of the git_push / git_pull call that is not running
NoPs ==
    [force |-> FALSE, auto_pull |-> FALSE, push_cmd |-> <<>>,
     first |-> "none", stderr |-> {}, stashing |-> FALSE,
     pull_ret |-> "none", retry |-> "none", ret |-> "none"]

\* remove_random_commits not called.  tip0, repo0 and all0 record the
\* commits of the current branch, the repository and the parsed git log as
\* they were when the call began; picked lists the hashes whose cherry-pick
\* exited 0; again tells a second call from the first; raised names the
\* exception a step of the try block raised
NoRr ==
    [mode |-> "none", target |-> 0, percentage |-> 0, filter |-> <<>>,
     commits |-> <<>>, num_to_keep |-> 0, removed |-> 0, asked |-> FALSE,
     answer |-> <<>>, keep_hashes |-> {}, i |-> 0, kept |-> 0,
     picked |-> <<>>, ret |-> "none", tip0 |-> <<>>, repo0 |-> <<>>,
     all0 |-> <<>>, again |-> FALSE, raised |-> "none"]

IdleRepo ==
    /\ file = NoFile
    /\ index = NoFile
    /\ stash = <<>>
    /\ untracked = FALSE
    /\ branches = NoBranches
    /\ head = "main"
    /\ nextHash = 1
    /\ remote = [configured |-> FALSE, pushed |-> <<>>]
    /\ cmds = <<>>
    /\ gc = NoGc
    /\ ps = NoPs
    /\ rr = NoRr

----------------------------------------------------------------------------
(* The schedule rules *)

\* commit_date.weekday() >= 5
IsWeekendSundayOnly(dt) == Weekday(dt) > WeekendFrom
IsWeekend(dt) == Weekday(dt) >= WeekendFrom

\* random.randint(*commits_per_day_range)
RandIntOffByOne(lo, hi) == lo .. (hi + 1)
RandInt(lo, hi) == lo .. hi

\* random.randint(9, 20), random.randint(0, 59): the two ends of each range
HourDraws == {HourLo, HourHi}
MinuteDraws == {MinuteLo, MinuteHi}

----------------------------------------------------------------------------
(* create_multiple_commits(count, date): one iteration of its loop draws a  *)
(* time of day, appends a line (add_activity) and attempts the commit      *)
(* (git_commit, whose result the loop ignores).                            *)

CmcCall(n, date) ==
    /\ pc' = "cmc"
    /\ cm' = [count |-> n, date |-> date, i |-> 0]
    /\ dayCount' = 0

CmcIter ==
    /\ UNCHANGED <<repoVars, cmds, gc, ps, rr>>
    /\ pc = "cmc"
    /\ cm.i < cm.count
    /\ \E h \in HourDraws, m \in MinuteDraws, ok \in BOOLEAN :
        LET commit_time == ReplaceTime(cm.date, h, m) IN
        lastReq' = [ord |-> commit_time.ord, hour |-> commit_time.hour,
                    minute |-> commit_time.minute,
                    second |-> commit_time.second, committed |-> ok]
    /\ dayCount' = dayCount + 1
    /\ cm' = [cm EXCEPT !.i = cm.i + 1]
    /\ lastDay' = NoDay
    /\ UNCHANGED <<pc, bf>>

\* the for loop is exhausted: back in the caller's loop, at the next day
CmcReturn ==
    /\ UNCHANGED <<repoVars, cmds, gc, ps, rr>>
    /\ pc = "cmc"
    /\ cm.i >= cm.count
    /\ pc' = "backfill"
    /\ lastDay' = [ord |-> cm.date.ord, n |-> dayCount]
    /\ bf' = IF bf.mode = "days"
             THEN [bf EXCEPT !.i = bf.i + 1]
             ELSE [bf EXCEPT !.current_date = PlusDays(bf.current_date, 1)]
    /\ lastReq' = NoReq
    /\ cm' = NoCm
    /\ dayCount' = 0

----------------------------------------------------------------------------
(* backfill_commits(days_back, commits_per_day_range, skip_weekends)       *)

BackfillDay ==
    /\ UNCHANGED <<repoVars, cmds, gc, ps, rr>>
    /\ pc = "backfill"
    /\ bf.mode = "days"
    /\ bf.i < bf.days_back
    /\ LET commit_date == PlusDays(bf.today, 0 - bf.i) IN
        IF bf.skip_weekends /\ IsWeekend(commit_date)
        THEN /\ bf' = [bf EXCEPT !.i = bf.i + 1]
             /\ lastDay' = [ord |-> commit_date.ord, n |-> 0]
             /\ lastReq' = NoReq
             /\ UNCHANGED <<pc, cm, dayCount>>
        ELSE \E num_commits \in RandInt(bf.min, bf.max), skip \in BOOLEAN :
                IF skip
                THEN /\ bf' = [bf EXCEPT !.i = bf.i + 1]
                     /\ lastDay' = [ord |-> commit_date.ord, n |-> 0]
                     /\ lastReq' = NoReq
                     /\ UNCHANGED <<pc, cm, dayCount>>
                ELSE /\ CmcCall(num_commits, commit_date)
                     /\ lastReq' = NoReq
                     /\ lastDay' = NoDay
                     /\ UNCHANGED bf

(* backfill_year and backfill_date_range: the same while loop              *)
RangeDay ==
    /\ UNCHANGED <<repoVars, cmds, gc, ps, rr>>
    /\ pc = "backfill"
    /\ bf.mode \in {"year", "range"}
    /\ DtLeq(bf.current_date, bf.end_date)
    /\ IF bf.skip_weekends /\ IsWeekend(bf.current_date)
       THEN /\ bf' = [bf EXCEPT !.current_date = PlusDays(bf.current_date, 1)]
            /\ lastDay' = [ord |-> bf.current_date.ord, n |-> 0]
            /\ lastReq' = NoReq
            /\ UNCHANGED <<pc, cm, dayCount>>
       ELSE \E num_commits \in RandInt(bf.min, bf.max), skip \in BOOLEAN :
               IF skip
               THEN /\ bf' = [bf EXCEPT
                                !.current_date = PlusDays(bf.current_date, 1)]
                    /\ lastDay' = [ord |-> bf.current_date.ord, n |-> 0]
                    /\ lastReq' = NoReq
                    /\ UNCHANGED <<pc, cm, dayCount>>
               ELSE /\ CmcCall(num_commits, bf.current_date)
                    /\ lastReq' = NoReq
                    /\ lastDay' = NoDay
                    /\ UNCHANGED bf

BackfillDone ==
    /\ UNCHANGED <<repoVars, cmds, gc, ps, rr>>
    /\ pc = "backfill"
    /\ IF bf.mode = "days"
       THEN bf.i >= bf.days_back
       ELSE ~DtLeq(bf.current_date, bf.end_date)
    /\ pc' = "done"
    /\ lastReq' = NoReq
    /\ lastDay' = NoDay
    /\ UNCHANGED <<bf, cm, dayCount>>

BfRecord(mode, r, sw, today, days_back, start, end) ==
    [mode |-> mode, min |-> r[1], max |-> r[2], skip_weekends |-> sw,
     today |-> today, days_back |-> days_back, i |-> 0,
     start_date |-> start, current_date |-> start, end_date |-> end]

BackfillCalls ==
    {BfRecord("days", r, sw, now, n, now, now) :
        r \in CountRanges, sw \in BOOLEAN, now \in NowValues, n \in 0 .. MaxDays}
    \cup
    {BfRecord("year", r, sw, MkDate(y, 1, 1), 0, MkDate(y, 1, 1), MkDate(y, 12, 31)) :
        r \in CountRanges, sw \in BOOLEAN, y \in Years}
    \cup
    {BfRecord("range", r, sw, Strptime(s), 0, Strptime(s), Strptime(e)) :
        r \in CountRanges, sw \in BOOLEAN, s \in InputDates, e \in InputDates}

InitBackfill ==
    /\ pc = "backfill"
    /\ bf \in BackfillCalls
    /\ cm = NoCm
    /\ dayCount = 0
    /\ lastReq = NoReq
    /\ lastDay = NoDay
    /\ IdleRepo

NextBackfill == BackfillDay \/ RangeDay \/ CmcIter \/ CmcReturn \/ BackfillDone

SpecBackfill == InitBackfill /\ [][NextBackfill]_vars

----------------------------------------------------------------------------
(* C1: with skip_weekends set, no append and no commit attempt is ever     *)
(* requested for a Saturday or Sunday (weekday index >= 5), and            *)
(* create_multiple_commits is never running for such a day.                *)
C1_NoWeekendCommits ==
    bf.skip_weekends =>
        /\ (lastReq # NoReq => (lastReq.ord + 6) % 7 < 5)
        /\ (pc = "cmc" => (cm.date.ord + 6) % 7 < 5)

\* a Saturday or Sunday has just been passed over with the flag set
C1_Witness ==
    /\ bf.skip_weekends
    /\ lastDay # NoDay /\ (lastDay.ord + 6) % 7 >= 5 /\ lastDay.n = 0

(* C2: with min <= max, a day a backfill loop has finished received either *)
(* no commit attempt or a number n of attempts with min <= n <= max; a day *)
(* in progress never has more than max attempts.                           *)
C2_CountInRange ==
    /\ dayCount <= bf.max
    /\ lastDay # NoDay =>
        \/ lastDay.n = 0
        \/ bf.min <= lastDay.n /\ lastDay.n <= bf.max

\* a day has just finished with a nonzero number of attempts, equal to max
C2_Witness ==
    /\ lastDay # NoDay
    /\ lastDay.n > 0
    /\ lastDay.n = bf.max
    /\ bf.min < bf.max

(* C14: every timestamp a backfill requests has hour 9..20, minute 0..59 *)
(* and second 0, on the day create_multiple_commits was given; for        *)
(* backfill_date_range (and backfill_year) that day is between start and  *)
(* end inclusive, and nothing is requested when start is after end; for   *)
(* backfill_commits(days_back) it is one of the days_back days ending     *)
(* today.                                                                  *)
C14_TimestampInDayWindow ==
    /\ lastReq # NoReq =>
        /\ lastReq.hour \in HourLo .. HourHi
        /\ lastReq.minute \in MinuteLo .. MinuteHi
        /\ lastReq.second = 0
        /\ lastReq.ord = cm.date.ord
    /\ (pc = "cmc" /\ bf.mode \in {"year", "range"}) =>
        /\ bf.start_date.ord <= cm.date.ord
        /\ cm.date.ord <= bf.end_date.ord
    /\ (pc = "cmc" /\ bf.mode = "days") =>
        /\ bf.today.ord - bf.days_back < cm.date.ord
        /\ cm.date.ord <= bf.today.ord
    /\ (bf.mode = "range" /\ ~DtLeq(bf.start_date, bf.end_date)) =>
        (pc # "cmc" /\ lastReq = NoReq /\ lastDay = NoDay)

\* the oldest day of a backfill_commits run started late in the evening
\* receives a commit at 20:59:00
C14_Witness ==
    /\ bf.mode = "days"
    /\ bf.days_back >= 2
    /\ bf.today.second = 59
    /\ lastReq # NoReq
    /\ lastReq.ord = bf.today.ord - bf.days_back + 1
    /\ lastReq.hour = HourHi
    /\ lastReq.minute = MinuteHi

----------------------------------------------------------------------------
(* setup_repo, add_activity and git_commit, as main's choice 1 runs them    *)

Run(cmd) == cmds' = Append(cmds, cmd)

\* setup_repo(): create the activity file if it does not exist
SetupRepo ==
    /\ pc = "setup_repo"
    /\ file' = IF file.exists THEN file
               ELSE [exists |-> TRUE, lines |-> HeaderLines]
    /\ pc' = "add_activity"
    /\ UNCHANGED <<rr, schedVars, index, stash, untracked, branches, head,
                   nextHash, remote, cmds, gc, ps>>

\* message = add_activity(): append one line stamped datetime.now() with a
\* message drawn from activity_messages; main passes it to git_commit(message)
AddActivity ==
    /\ pc = "add_activity"
    /\ \E timestamp \in ClockValues, message \in ActivityMessages :
        /\ file' = [exists |-> TRUE,
                    lines |-> Append(file.lines, Line(timestamp, message))]
        /\ gc' = [message |-> message, date |-> NoDate, ret |-> "none",
                  before |-> file.lines,
                  entry |-> Append(file.lines, Line(timestamp, message)),
                  commits |-> HeadCommits]
    /\ pc' = "git_add"
    /\ UNCHANGED <<rr, schedVars, index, stash, untracked, branches, head,
                   nextHash, remote, cmds, ps>>

\* main calls git_push() whatever git_commit returned
CallPush == ps' = [NoPs EXCEPT !.auto_pull = TRUE]

\* except subprocess.CalledProcessError: return False
CommitErrorRaises == [gc EXCEPT !.ret = "raised"]
CommitError == [gc EXCEPT !.ret = "False"]

\* git add <file>, check=True: a non-zero exit raises CalledProcessError,
\* which git_commit catches to return False
GitAdd ==
    /\ pc = "git_add"
    /\ Run(<<"git", "add">>)
    /\ \E ok \in BOOLEAN :
        IF ok /\ file.exists
        THEN /\ index' = file
             /\ pc' = "git_commit"
             /\ UNCHANGED <<gc, ps>>
        ELSE /\ gc' = CommitError
             /\ pc' = "git_push"
             /\ CallPush
             /\ UNCHANGED index
    /\ UNCHANGED <<rr, schedVars, file, stash, untracked, branches, head,
                   nextHash, remote>>

\* the commit git creates from the index: GIT_AUTHOR_DATE and
\* GIT_COMMITTER_DATE are set only when a date was given
NewCommitDated(message, date) ==
    [hash |-> nextHash, message |-> message,
     date |-> Strftime(MkDate(2024, 1, 1)), tree |-> index, src |-> 0]
NewCommit(message, date) ==
    [hash |-> nextHash, message |-> message, date |-> date, tree |-> index,
     src |-> 0]

\* git commit -m message, check=True
GitCommit ==
    /\ pc = "git_commit"
    /\ Run(<<"git", "commit", "-m", gc.message>>)
    /\ \E ok \in BOOLEAN :
        IF ok /\ index # HeadTree /\ head # ""
        THEN /\ branches' =
                 [b \in DOMAIN branches \cup {head} |->
                     IF b = head
                     THEN Append(HeadCommits, NewCommit(gc.message, gc.date))
                     ELSE branches[b]]
             /\ nextHash' = nextHash + 1
             /\ gc' = [gc EXCEPT !.ret = "True"]
        ELSE /\ gc' = CommitError
             /\ UNCHANGED <<branches, nextHash>>
    /\ pc' = "git_push"
    /\ CallPush
    /\ UNCHANGED <<rr, schedVars, file, index, stash, untracked, head, remote>>

----------------------------------------------------------------------------
(* git_push(force, auto_pull) and git_pull()                               *)

\* what the code looks for in the stderr of a failed push
StderrMarkers == {"non-fast-forward", "rejected", "no upstream branch"}

\* 'non-fast-forward' in result.stderr or 'rejected' in result.stderr
LooksRejectedAlways(stderr) == TRUE
LooksRejected(stderr) == "non-fast-forward" \in stderr \/ "rejected" \in stderr

\* 'no upstream branch' in result.stderr
LooksNoUpstream(stderr) == "no upstream branch" \in stderr

\* branch_result.stdout.strip() or 'main'
CurrentBranch == IF head = "" THEN "main" ELSE head

\* push_cmd as first built
PushCmd(force, current_branch) ==
    IF force
    THEN <<"git", "push", "--force", "--set-upstream", "origin", current_branch>>
    ELSE <<"git", "push", "origin", current_branch>>

\* push_cmd as rebuilt after 'no upstream branch'
UpstreamCmd(force, current_branch) ==
    IF force
    THEN <<"git", "push", "--force", "--set-upstream", "origin", current_branch>>
    ELSE <<"git", "push", "--set-upstream", "origin", current_branch>>

\* the remote after a push of current_branch that exited 0
Pushed(current_branch) ==
    [remote EXCEPT !.pushed =
        IF current_branch \in DOMAIN branches
        THEN branches[current_branch] ELSE <<>>]

\* git remote, git branch --show-current, and the push command
PushStart ==
    /\ pc = "git_push"
    /\ IF ~remote.configured
       THEN /\ cmds' = cmds \o <<(<<"git", "remote">>)>>
            /\ ps' = [ps EXCEPT !.ret = "False"]
            /\ pc' = "done"
       ELSE /\ cmds' = cmds \o <<(<<"git", "remote">>),
                                 (<<"git", "branch", "--show-current">>)>>
            /\ ps' = [ps EXCEPT !.push_cmd = PushCmd(ps.force, CurrentBranch)]
            /\ pc' = "push_first"
    /\ UNCHANGED <<rr, schedVars, repoVars, gc>>

\* the first push (no check=True), and the branch taken on its result
PushFirst ==
    /\ pc = "push_first"
    /\ Run(ps.push_cmd)
    /\ \/ /\ ps' = [ps EXCEPT !.first = "ok", !.ret = "True"]
          /\ remote' = Pushed(CurrentBranch)
          /\ pc' = "done"
       \/ /\ UNCHANGED remote
          /\ \E stderr \in SUBSET StderrMarkers :
              IF LooksRejected(stderr)
              THEN IF ps.auto_pull /\ ~ps.force
                   THEN /\ ps' = [ps EXCEPT !.first = "fail", !.stderr = stderr]
                        /\ pc' = "pull_status"
                   ELSE /\ ps' = [ps EXCEPT !.first = "fail", !.stderr = stderr,
                                            !.ret = "False"]
                        /\ pc' = "done"
              ELSE IF LooksNoUpstream(stderr)
                   THEN /\ ps' = [ps EXCEPT
                                    !.first = "fail", !.stderr = stderr,
                                    !.push_cmd =
                                        UpstreamCmd(ps.force, CurrentBranch)]
                        /\ pc' = "push_retry"
                   ELSE /\ ps' = [ps EXCEPT !.first = "fail", !.stderr = stderr,
                                            !.ret = "False"]
                        /\ pc' = "done"
    /\ UNCHANGED <<rr, schedVars, file, index, stash, untracked, branches, head,
                   nextHash, gc>>

\* git_pull: git status --porcelain, check=True.  When git_pull returns
\* False, git_push returns False
PullStatus ==
    /\ pc = "pull_status"
    /\ Run(<<"git", "status", "--porcelain">>)
    /\ \E ok \in BOOLEAN :
        IF ~ok
        THEN /\ ps' = [ps EXCEPT !.pull_ret = "False", !.ret = "False"]
             /\ pc' = "done"
        ELSE IF Dirty
             THEN /\ ps' = [ps EXCEPT !.stashing = TRUE]
                  /\ pc' = "pull_stash"
             ELSE /\ pc' = "pull_rebase"
                  /\ UNCHANGED ps
    /\ UNCHANGED <<rr, schedVars, repoVars, gc>>

\* git stash saved something: tracked changes, on a branch with a commit
StashSaves ==
    /\ HeadCommits # <<>>
    /\ file # HeadTree \/ index # HeadTree
    /\ index.exists \/ HeadTree.exists

\* git_stash(): the value it returns is not used by git_pull
PullStash ==
    /\ pc = "pull_stash"
    /\ Run(<<"git", "stash">>)
    /\ \E ok \in BOOLEAN :
        IF ok /\ StashSaves
        THEN /\ stash' = Append(stash, file)
             /\ file' = HeadTree
             /\ index' = HeadTree
        ELSE UNCHANGED <<stash, file, index>>
    /\ pc' = "pull_rebase"
    /\ UNCHANGED <<rr, schedVars, untracked, branches, head, nextHash, remote,
                   gc, ps>>

\* git pull --rebase, check=True: a failure leaves git_pull at once
PullRebase ==
    /\ pc = "pull_rebase"
    /\ Run(<<"git", "pull", "--rebase">>)
    /\ \E ok \in BOOLEAN :
        IF ~ok
        THEN /\ ps' = [ps EXCEPT !.pull_ret = "False", !.ret = "False"]
             /\ pc' = "done"
        ELSE IF ps.stashing
             THEN /\ pc' = "pull_pop"
                  /\ UNCHANGED ps
             ELSE /\ ps' = [ps EXCEPT !.pull_ret = "True"]
                  /\ pc' = "push_retry"
    /\ UNCHANGED <<rr, schedVars, repoVars, gc>>

\* git_stash_pop(): the value it returns is not used; git_pull returns True
PullPop ==
    /\ pc = "pull_pop"
    /\ Run(<<"git", "stash", "pop">>)
    /\ \E ok \in BOOLEAN :
        IF ok /\ stash # <<>>
        THEN /\ file' = stash[Len(stash)]
             /\ stash' = SubSeq(stash, 1, Len(stash) - 1)
        ELSE UNCHANGED <<file, stash>>
    /\ ps' = [ps EXCEPT !.pull_ret = "True"]
    /\ pc' = "push_retry"
    /\ UNCHANGED <<rr, schedVars, index, untracked, branches, head, nextHash,
                   remote, gc>>

\* the second push, check=True: a non-zero exit raises CalledProcessError,
\* which git_push catches to return False
PushRetry ==
    /\ pc = "push_retry"
    /\ Run(ps.push_cmd)
    /\ \/ /\ ps' = [ps EXCEPT !.retry = "ok", !.ret = "True"]
          /\ remote' = Pushed(CurrentBranch)
       \/ /\ ps' = [ps EXCEPT !.retry = "fail", !.ret = "False"]
          /\ UNCHANGED remote
    /\ pc' = "done"
    /\ UNCHANGED <<rr, schedVars, file, index, stash, untracked, branches, head,
                   nextHash, gc>>

----------------------------------------------------------------------------
(* The states main's choice 1 and a direct git_push call start from        *)

\* a commit made earlier by the script: the file as it then was
OldCommit ==
    [hash |-> 1, message |-> "Code cleanup", date |-> NoDate,
     tree |-> [exists |-> TRUE, lines |-> HeaderLines], src |-> 0]

\* the file, the index and the branch before the run: a fresh working tree,
\* a committed file, and a committed file with an uncommitted line left by a
\* run whose commit failed
StartStates ==
    {[file |-> NoFile, index |-> NoFile, commits |-> <<>>],
     [file |-> OldCommit.tree, index |-> OldCommit.tree,
      commits |-> <<OldCommit>>],
     [file |-> [exists |-> TRUE,
                lines |-> Append(HeaderLines,
                                 Line(MkDate(2024, 2, 25), "Code cleanup"))],
      index |-> OldCommit.tree, commits |-> <<OldCommit>>]}

InitCommit ==
    /\ bf \in {BfRecord("none", <<0, 0>>, FALSE, MkDate(1, 1, 1), 0,
                        MkDate(1, 1, 1), MkDate(1, 1, 1))}
    /\ cm = NoCm
    /\ dayCount = 0
    /\ lastReq = NoReq
    /\ lastDay = NoDay
    /\ \E st \in StartStates :
        /\ file = st.file
        /\ index = st.index
        /\ \E h \in {"main", "dev", ""} :
            /\ head = h
            /\ branches = IF st.commits = <<>> \/ h = "" THEN NoBranches
                          ELSE [b \in {h} |-> st.commits]
        /\ nextHash = Len(st.commits) + 1
    /\ stash = <<>>
    /\ untracked \in BOOLEAN
    /\ remote \in {[configured |-> c, pushed |-> <<>>] : c \in BOOLEAN}
    /\ cmds = <<>>
    /\ gc = NoGc
    /\ rr = NoRr
    /\ \/ /\ pc = "setup_repo"
          /\ head # ""
          /\ ps = NoPs
       \/ /\ pc = "git_push"
          /\ ps \in {[NoPs EXCEPT !.force = f, !.auto_pull = a] :
                        f \in BOOLEAN, a \in BOOLEAN}

NextCommit ==
    \/ SetupRepo \/ AddActivity \/ GitAdd \/ GitCommit
    \/ PushStart \/ PushFirst \/ PullStatus \/ PullStash \/ PullRebase
    \/ PullPop \/ PushRetry

SpecCommit == InitCommit /\ [][NextCommit]_vars

----------------------------------------------------------------------------
\* the number of commands run whose git subcommand is sub
RECURSIVE CountCmd(_, _)
CountCmd(log, sub) ==
    IF log = <<>> THEN 0
    ELSE (IF Head(log)[2] = sub THEN 1 ELSE 0) + CountCmd(Tail(log), sub)

(* C6: when git add or git commit exits non-zero, git_commit returns False *)
(* (it does not raise: the run goes on to git_push), no commit has been    *)
(* created, and the line add_activity appended before the attempt is still *)
(* the last line of the activity file.                                     *)
C6_FailedCommitKeepsLine ==
    /\ (pc = "git_push" /\ cmds # <<>>) => gc.ret \in {"True", "False"}
    /\ (pc = "git_push" /\ cmds # <<>> /\ gc.ret # "True") =>
        /\ gc.ret = "False"
        /\ HeadCommits = gc.commits
        /\ nextHash = Len(HeadCommits) + 1
        /\ file.exists
        /\ file.lines = gc.entry
        /\ Len(file.lines) = Len(gc.before) + 1
        /\ file.lines[Len(file.lines)].message = gc.message

\* git commit (not git add) has exited non-zero and git_commit returned False
C6_Witness ==
    /\ gc.ret = "False"
    /\ pc = "git_push"
    /\ Len(cmds) = 2
    /\ cmds[2][2] = "commit"
    /\ index = file

C8_SingleCommit ==
    gc.ret = "True" =>
        LET n == Len(HeadCommits)
            c == HeadCommits[n]
            k == Len(file.lines)
        IN  /\ n = Len(gc.commits) + 1
            /\ SubSeq(HeadCommits, 1, n - 1) = gc.commits
            /\ k = Len(gc.before) + 1
            /\ SubSeq(file.lines, 1, k - 1) = gc.before
            /\ c.date = NoDate
            /\ Cardinality(ActivityMessages) = 15
            /\ c.message \in ActivityMessages
            /\ file.lines[k].message = c.message
            /\ c.tree = file

\* the commit was created on a branch that had a commit already
C8_Witness ==
    /\ gc.ret = "True"
    /\ Len(HeadCommits) = 2
    /\ pc = "done"

(* C12: when git status --porcelain reports uncommitted changes, git_pull *)
(* has run git stash, then git pull --rebase, then git stash pop, in that  *)
(* order, by the time it returns: the stash is always followed by a stash  *)
(* pop attempt in the same call.                                           *)
C12_StashThenPop ==
    (ps.stashing /\ ps.pull_ret # "none") =>
        \E i, j, k \in 1 .. Len(cmds) :
            /\ i < j /\ j < k
            /\ cmds[i] = <<"git", "stash">>
            /\ cmds[j] = <<"git", "pull", "--rebase">>
            /\ cmds[k] = <<"git", "stash", "pop">>

\* the same, for the calls whose git pull --rebase exited 0
StashThenPopAfterPull ==
    (ps.stashing /\ ps.pull_ret = "True") =>
        \E i, j, k \in 1 .. Len(cmds) :
            /\ i < j /\ j < k
            /\ cmds[i] = <<"git", "stash">>
            /\ cmds[j] = <<"git", "pull", "--rebase">>
            /\ cmds[k] = <<"git", "stash", "pop">>

----------------------------------------------------------------------------
(* remove_random_commits(percentage, filter_by_message) and                *)
(* thin_out_commits(target_percentage).  Strings the code lowercases or    *)
(* searches are sequences of characters.                                   *)

Yes == <<"y", "e", "s">>

\* str.lower(), on the letters the inputs use
LowerChar(c) ==
    CASE c = "Y" -> "y" [] c = "E" -> "e" [] c = "S" -> "s"
      [] c = "F" -> "f" [] c = "I" -> "i" [] c = "X" -> "x"
      [] OTHER -> c

Lower(str) == [k \in 1 .. Len(str) |-> LowerChar(str[k])]

\* sub in str
Contains(sub, str) ==
    \E k \in 0 .. (Len(str) - Len(sub)) : SubSeq(str, k + 1, k + Len(sub)) = sub

\* subjects of the commits in the repository
Subjects == {<<"F", "i", "x">>, <<"d", "o", "c">>, <<"a", "|", "b">>}

\* filter_by_message: None (or empty), or a text
Filters == {<<>>, <<"F", "I", "X">>, <<"z">>}

\* what the user types at "Continue? (yes/no): "
Answers == {Yes, <<"Y", "E", "S">>, <<"n", "o">>, <<"y">>}

RemovePercents == {0, 50, 100}
ThinTargets == {1, 34, 50, 75, 100}

Max(a, b) == IF a >= b THEN a ELSE b

\* int(num / den) for den > 0: int() truncates toward zero
IntTrunc(num, den) ==
    IF num >= 0 THEN num \div den ELSE 0 - ((0 - num) \div den)

\* keep_percentage = 100 - percentage
\* num_to_keep = max(1, int(len(commits) * keep_percentage / 100))
NumToKeepNotInverted(n, percentage) == Max(1, IntTrunc(n * percentage, 100))
NumToKeep(n, percentage) ==
    LET keep_percentage == 100 - percentage
    IN  Max(1, IntTrunc(n * keep_percentage, 100))

\* percentage_to_remove = 100 - target_percentage
ThinPercentage(target_percentage) == 100 - target_percentage

\* confirm = input(...).lower(); confirm != 'yes' cancels
ConfirmedByFirstLetter(answer) == answer # <<>> /\ Lower(answer)[1] = "y"
Confirmed(answer) == Lower(answer) = Yes

\* every commit reachable from a branch
AllCommitSet ==
    UNION {{branches[b][k] : k \in 1 .. Len(branches[b])} : b \in DOMAIN branches}

RECURSIVE NewestFirst(_)
NewestFirst(S) ==
    IF S = {} THEN <<>>
    ELSE LET c == CHOOSE x \in S : \A y \in S : y.hash <= x.hash
         IN  <<c>> \o NewestFirst(S \ {c})

\* the number of '|' in a subject
RECURSIVE Bars(_)
Bars(str) ==
    IF str = <<>> THEN 0
    ELSE (IF Head(str) = "|" THEN 1 ELSE 0) + Bars(Tail(str))

\* get_commit_history(): the lines of git log --pretty=format:%H|%s|%ad
\* --all, newest first, split at '|'; a line is kept when it has 3 parts
RECURSIVE ParseLog(_)
ParseLog(log) ==
    IF log = <<>> THEN <<>>
    ELSE (IF Bars(Head(log).message) + 3 = 3
          THEN <<[hash |-> Head(log).hash, message |-> Head(log).message]>>
          ELSE <<>>) \o ParseLog(Tail(log))

\* [c for c in commits if filter_by_message.lower() in c['message'].lower()]
RECURSIVE FilterByMessage(_, _)
FilterByMessage(commits, text) ==
    IF commits = <<>> THEN <<>>
    ELSE (IF Contains(Lower(text), Lower(Head(commits).message))
          THEN <<Head(commits)>> ELSE <<>>)
         \o FilterByMessage(Tail(commits), text)

Hashes(commits) == {commits[k].hash : k \in 1 .. Len(commits)}

\* [c['hash'] for c in reversed(commits)]
AllHashesNewestFirst(commits) == [k \in 1 .. Len(commits) |-> commits[k].hash]
AllHashes(commits) ==
    [k \in 1 .. Len(commits) |-> commits[Len(commits) + 1 - k].hash]

CommitOf(h) == CHOOSE c \in AllCommitSet : c.hash = h

Backup == "backup-before-cleanup"
Temp == "temp_new_history"

\* the branches without branch b
Without(bs, b) == [x \in DOMAIN bs \ {b} |-> bs[x]]

\* the tree of the HEAD commit of branch b
TipTree(b) == branches[b][Len(branches[b])].tree

\* the calls main makes: choice 8 (percentage, filter) and choice 9
\* (thin_out_commits(target), which calls remove_random_commits(100 - target))
RrCalls ==
    {[mode |-> "remove", target |-> 0, percentage |-> p, filter |-> f] :
        p \in RemovePercents, f \in Filters}
    \cup
    {[mode |-> "thin", target |-> t, percentage |-> ThinPercentage(t),
      filter |-> <<>>] : t \in ThinTargets}

\* lines 372-393: read the history, filter it, compute and print the counts.
\* A second call is made once, from the state the first one left.
RrCall ==
    /\ pc = "rr_idle" \/ (pc = "done" /\ ~rr.again)
    /\ cmds' = <<(<<"git", "log", "--all">>)>>
    /\ \E call \in RrCalls, ok \in BOOLEAN :
        LET all == IF ok THEN ParseLog(NewestFirst(AllCommitSet)) ELSE <<>>
            commits == IF call.filter # <<>>
                       THEN FilterByMessage(all, call.filter) ELSE all
            num_to_keep == NumToKeep(Len(commits), call.percentage)
            base == [NoRr EXCEPT
                        !.mode = call.mode, !.target = call.target,
                        !.percentage = call.percentage,
                        !.filter = call.filter, !.all0 = all,
                        !.tip0 = HeadCommits,
                        !.repo0 = <<branches, head, file, index>>,
                        !.again = (pc = "done")]
        IN  IF all = <<>>
            THEN /\ rr' = [base EXCEPT !.ret = "False"]
                 /\ pc' = "done"
            ELSE /\ rr' = [base EXCEPT
                            !.commits = commits,
                            !.num_to_keep = num_to_keep,
                            !.removed = Len(commits) - num_to_keep]
                 /\ pc' = "rr_confirm"
    /\ UNCHANGED <<schedVars, repoVars, gc, ps>>

\* lines 395-400: the confirmation prompt
RrConfirm ==
    /\ pc = "rr_confirm"
    /\ \E answer \in Answers :
        IF Confirmed(answer)
        THEN /\ rr' = [rr EXCEPT !.asked = TRUE, !.answer = answer]
             /\ pc' = "rr_backup"
        ELSE /\ rr' = [rr EXCEPT !.asked = TRUE, !.answer = answer,
                                 !.ret = "False"]
             /\ pc' = "done"
    /\ UNCHANGED <<schedVars, repoVars, cmds, gc, ps>>

\* lines 405-408: git branch backup-before-cleanup, exit status not looked
\* at.  git creates the branch at HEAD unless the name is taken
RrBackup ==
    /\ pc = "rr_backup"
    /\ Run(<<"git", "branch", Backup>>)
    /\ branches' = IF Backup \notin DOMAIN branches /\ HeadCommits # <<>>
                   THEN [b \in DOMAIN branches \cup {Backup} |->
                            IF b = Backup THEN HeadCommits ELSE branches[b]]
                   ELSE branches
    /\ pc' = "rr_sample"
    /\ UNCHANGED <<schedVars, file, index, stash, untracked, head, nextHash,
                   remote, gc, ps, rr>>

\* lines 410-412: random.sample(commits, num_to_keep) raises ValueError when
\* num_to_keep exceeds len(commits); "except Exception" then returns False
RrSample ==
    /\ pc = "rr_sample"
    /\ IF rr.num_to_keep > Len(rr.commits)
       THEN /\ rr' = [rr EXCEPT !.ret = "False", !.raised = "ValueError"]
            /\ pc' = "done"
       ELSE /\ \E keep \in SUBSET Hashes(rr.commits) :
                /\ Cardinality(keep) = rr.num_to_keep
                /\ rr' = [rr EXCEPT !.keep_hashes = keep]
            /\ pc' = "rr_orphan"
    /\ UNCHANGED <<schedVars, repoVars, cmds, gc, ps>>

\* lines 417-419: git checkout --orphan temp_new_history, check=True
RrOrphan ==
    /\ pc = "rr_orphan"
    /\ Run(<<"git", "checkout", "--orphan", Temp>>)
    /\ \E ok \in BOOLEAN :
        IF ok /\ Temp \notin DOMAIN branches
        THEN /\ head' = Temp
             /\ pc' = "rr_rm"
             /\ UNCHANGED rr
        ELSE /\ pc' = "rr_recover"
             /\ rr' = [rr EXCEPT !.raised = "CalledProcessError"]
             /\ UNCHANGED head
    /\ UNCHANGED <<schedVars, file, index, stash, untracked, branches,
                   nextHash, remote, gc, ps>>

\* lines 421-423: git rm -rf . empties the index and the working tree
RrRm ==
    /\ pc = "rr_rm"
    /\ Run(<<"git", "rm", "-rf", ".">>)
    /\ file' = NoFile
    /\ index' = NoFile
    /\ pc' = "rr_pick"
    /\ UNCHANGED <<schedVars, stash, untracked, branches, head, nextHash,
                   remote, gc, ps, rr>>

\* the commit git cherry-pick h creates on the current branch
Picked(h) ==
    [hash |-> nextHash, message |-> CommitOf(h).message,
     date |-> CommitOf(h).date,
     tree |-> [exists |-> TRUE, lines |-> Append(index.lines, h)],
     src |-> h]

\* the current branch after git cherry-pick h: extended when it exits 0,
\* left as it was by git cherry-pick --skip when it does not
AfterPickKeepsFailed(ok, h) == Append(HeadCommits, Picked(h))
AfterPick(ok, h) == IF ok THEN Append(HeadCommits, Picked(h)) ELSE HeadCommits

\* lines 430-450: one iteration of the walk over all_hashes, oldest first
RrPick ==
    /\ pc = "rr_pick"
    /\ rr.i < Len(rr.commits)
    /\ LET commit_hash == AllHashes(rr.commits)[rr.i + 1] IN
        IF commit_hash \in rr.keep_hashes
        THEN \E ok \in BOOLEAN :
                /\ cmds' = IF ok
                           THEN Append(cmds, <<"git", "cherry-pick",
                                              ToString(commit_hash)>>)
                           ELSE cmds \o <<(<<"git", "cherry-pick",
                                            ToString(commit_hash)>>),
                                          (<<"git", "cherry-pick", "--skip">>)>>
                /\ branches' =
                     LET tip == AfterPick(ok, commit_hash) IN
                     IF tip = <<>> THEN branches
                     ELSE [b \in DOMAIN branches \cup {head} |->
                              IF b = head THEN tip ELSE branches[b]]
                /\ nextHash' = IF ok THEN nextHash + 1 ELSE nextHash
                /\ file' = IF ok THEN Picked(commit_hash).tree ELSE file
                /\ index' = IF ok THEN Picked(commit_hash).tree ELSE index
                /\ rr' = [rr EXCEPT
                            !.i = rr.i + 1,
                            !.kept = IF ok THEN rr.kept + 1 ELSE rr.kept,
                            !.picked = IF ok THEN Append(rr.picked, commit_hash)
                                       ELSE rr.picked]
        ELSE /\ rr' = [rr EXCEPT !.i = rr.i + 1]
             /\ UNCHANGED <<cmds, branches, nextHash, file, index>>
    /\ UNCHANGED <<pc, schedVars, stash, untracked, head, remote, gc, ps>>

\* lines 454-472: git branch --show-current; on temp_new_history, git branch
\* -D main (exit status not looked at) and git branch -m main (check=True)
RrReplace ==
    /\ pc = "rr_pick"
    /\ rr.i >= Len(rr.commits)
    /\ IF head = Temp
       THEN \E delOk \in BOOLEAN, mvOk \in BOOLEAN :
               LET deleted == delOk /\ "main" \in DOMAIN branches
                   b1 == IF deleted THEN Without(branches, "main") ELSE branches
                   renamed == mvOk /\ "main" \notin DOMAIN b1
               IN  /\ cmds' = cmds \o <<(<<"git", "branch", "--show-current">>),
                                        (<<"git", "branch", "-D", "main">>),
                                        (<<"git", "branch", "-m", "main">>)>>
                   /\ IF renamed
                      THEN /\ branches' =
                                IF Temp \in DOMAIN b1
                                THEN [b \in (DOMAIN b1 \ {Temp}) \cup {"main"} |->
                                         IF b = "main" THEN b1[Temp] ELSE b1[b]]
                                ELSE b1
                           /\ head' = "main"
                           /\ rr' = [rr EXCEPT !.ret = "True"]
                           /\ pc' = "done"
                      ELSE /\ branches' = b1
                           /\ rr' = [rr EXCEPT
                                        !.raised = "CalledProcessError"]
                           /\ pc' = "rr_recover"
                           /\ UNCHANGED head
       ELSE /\ cmds' = Append(cmds, <<"git", "branch", "--show-current">>)
            /\ rr' = [rr EXCEPT !.ret = "False"]
            /\ pc' = "done"
            /\ UNCHANGED <<branches, head>>
    /\ UNCHANGED <<schedVars, file, index, stash, untracked, nextHash, remote,
                   gc, ps>>

\* lines 474-480: after CalledProcessError, git checkout main and
\* git branch -D temp_new_history, exit statuses not looked at
RrRecover ==
    /\ pc = "rr_recover"
    /\ cmds' = cmds \o <<(<<"git", "checkout", "main">>),
                         (<<"git", "branch", "-D", Temp>>)>>
    /\ \E ok \in BOOLEAN :
        LET switched == ok /\ "main" \in DOMAIN branches
            h1 == IF switched THEN "main" ELSE head
        IN  /\ head' = h1
            /\ file' = IF switched THEN TipTree("main") ELSE file
            /\ index' = IF switched THEN TipTree("main") ELSE index
            /\ branches' = IF Temp \in DOMAIN branches /\ h1 # Temp
                           THEN Without(branches, Temp) ELSE branches
    /\ rr' = [rr EXCEPT !.ret = "False"]
    /\ pc' = "done"
    /\ UNCHANGED <<schedVars, stash, untracked, nextHash, remote, gc, ps>>

----------------------------------------------------------------------------
(* The repositories a rewrite starts from: up to MaxCommits commits on the *)
(* checked-out branch, main or dev, each adding a line to the file         *)

StartCommits(subjects) ==
    [k \in 1 .. Len(subjects) |->
        [hash |-> k, message |-> subjects[k], date |-> NoDate,
         tree |-> [exists |-> TRUE, lines |-> [j \in 1 .. k |-> j]],
         src |-> 0]]

InitThin ==
    /\ pc = "rr_idle"
    /\ bf \in {BfRecord("none", <<0, 0>>, FALSE, MkDate(1, 1, 1), 0,
                        MkDate(1, 1, 1), MkDate(1, 1, 1))}
    /\ cm = NoCm
    /\ dayCount = 0
    /\ lastReq = NoReq
    /\ lastDay = NoDay
    /\ \E n \in 0 .. MaxCommits :
        \E subjects \in [1 .. n -> Subjects], h \in {"main", "dev"} :
            /\ head = h
            /\ branches = IF n = 0 THEN NoBranches
                          ELSE [b \in {h} |-> StartCommits(subjects)]
            /\ nextHash = n + 1
            /\ file = IF n = 0 THEN NoFile ELSE StartCommits(subjects)[n].tree
            /\ index = file
    /\ stash = <<>>
    /\ untracked = FALSE
    /\ remote = [configured |-> TRUE, pushed |-> <<>>]
    /\ cmds = <<>>
    /\ gc = NoGc
    /\ ps = NoPs
    /\ rr = NoRr

NextThin ==
    \/ RrCall \/ RrConfirm \/ RrBackup \/ RrSample \/ RrOrphan \/ RrRm
    \/ RrPick \/ RrReplace \/ RrRecover

SpecThin == InitThin /\ [][NextThin]_vars

----------------------------------------------------------------------------
\* a git command that changes branches, index or working tree
Mutating(cmd) ==
    \/ cmd[2] \in {"checkout", "rm", "cherry-pick"}
    \/ cmd[2] = "branch" /\ cmd[3] # "--show-current"

\* the hashes of the commits the repository held when the call began
OldHashes ==
    LET bs == rr.repo0[1]
    IN  UNION {{bs[b][k].hash : k \in 1 .. Len(bs[b])} : b \in DOMAIN bs}

(* C3: for a commit list of size N >= 1 and a target-keep percentage p in  *)
(* 1..100, thin_out_commits(p) makes remove_random_commits compute the     *)
(* keep-count max(1, floor(N*p/100)), which is >= 1, and report N minus    *)
(* that keep-count as removed.                                             *)
C3_ThinKeepCount ==
    (rr.mode = "thin" /\ Len(rr.commits) >= 1 /\ rr.target \in 1 .. 100) =>
        LET N == Len(rr.commits)
            floor == (N * rr.target) \div 100
        IN  /\ rr.num_to_keep = (IF floor >= 1 THEN floor ELSE 1)
            /\ rr.num_to_keep >= 1
            /\ rr.removed = N - rr.num_to_keep

\* a keep-count strictly between 1 and N, where the floor decides
C3_Witness ==
    /\ rr.mode = "thin"
    /\ pc = "rr_confirm"
    /\ rr.num_to_keep > 1
    /\ rr.num_to_keep < Len(rr.commits)
    /\ (Len(rr.commits) * rr.target) % 100 # 0

(* C4 as stated: no command that changes the repository is run unless the  *)
(* answer to the prompt is the literal string "yes"; any other answer      *)
(* returns False with branches, index and working tree unchanged.          *)
C4_LiteralYes ==
    /\ (\E k \in 1 .. Len(cmds) : Mutating(cmds[k])) => rr.answer = Yes
    /\ (rr.asked /\ rr.answer # Yes) =>
        /\ pc = "done"
        /\ rr.ret = "False"
        /\ <<branches, head, file, index>> = rr.repo0

(* C4 as amended: no command that changes the repository is run unless the *)
(* answer to the prompt, lowercased, is "yes" ("YES" and "Yes" confirm     *)
(* too); for any other answer the call returns False, cancelled, having    *)
(* run only git log, with branches, index and working tree unchanged.      *)
C4_ConfirmedLowercase ==
    /\ (\E k \in 1 .. Len(cmds) : Mutating(cmds[k])) =>
        (rr.asked /\ Lower(rr.answer) = Yes)
    /\ (rr.asked /\ Lower(rr.answer) # Yes) =>
        /\ pc = "done"
        /\ rr.ret = "False"
        /\ Len(cmds) = 1
        /\ <<branches, head, file, index>> = rr.repo0

\* the user typed "y": the call is over, cancelled
C4_Witness ==
    /\ rr.asked
    /\ rr.answer = <<"y">>
    /\ pc = "done"

(* C5: with filter_by_message, only commits whose subject contains the     *)
(* text (case-insensitively) are removed: every commit of the history read *)
(* whose subject does not contain it is still in the rebuilt history.      *)
C5_FilterKeepsOthers ==
    (rr.ret = "True" /\ rr.filter # <<>>) =>
        \A k \in 1 .. Len(rr.all0) :
            ~Contains(Lower(rr.filter), Lower(rr.all0[k].message)) =>
                \E j \in 1 .. Len(HeadCommits) :
                    HeadCommits[j].src = rr.all0[k].hash

(* C9: whenever remove_random_commits returns True the checked-out branch  *)
(* is main, its commits are exactly the kept commits whose cherry-pick     *)
(* exited 0, in the order picked, none of them a commit of the old         *)
(* history, and no branch temp_new_history remains.                        *)
C9_NewMainInPlace ==
    rr.ret = "True" =>
        /\ head = "main"
        /\ Temp \notin DOMAIN branches
        /\ Len(HeadCommits) = Len(rr.picked)
        /\ Len(HeadCommits) = rr.kept
        /\ \A j \in 1 .. Len(HeadCommits) :
            /\ HeadCommits[j].src = rr.picked[j]
            /\ rr.picked[j] \in rr.keep_hashes
            /\ HeadCommits[j].hash \notin OldHashes
            /\ \E k \in 1 .. Len(rr.commits) :
                /\ rr.commits[k].hash = rr.picked[j]
                /\ rr.commits[k].message = HeadCommits[j].message

\* the rewrite of a main branch succeeded although a cherry-pick failed
C9_Witness ==
    /\ rr.ret = "True"
    /\ rr.repo0[2] = "main"
    /\ rr.kept >= 1
    /\ rr.kept < rr.num_to_keep

(* C10: whenever remove_random_commits returns True, the branch            *)
(* backup-before-cleanup exists and points at the tip the current branch   *)
(* had when this rewrite began, also when a rewrite has been run before.   *)
C10_BackupAtPreviousTip ==
    rr.ret = "True" =>
        /\ Backup \in DOMAIN branches
        /\ branches[Backup] = rr.tip0

\* the same, for the first rewrite of a repository only
FirstRunBackup ==
    (rr.ret = "True" /\ ~rr.again) =>
        /\ Backup \in DOMAIN branches
        /\ branches[Backup] = rr.tip0

\* the git cherry-pick <hash> commands of the command log, in the order run
PickAttempts ==
    SelectSeq(cmds, LAMBDA cmd : cmd[2] = "cherry-pick" /\ cmd[3] # "--skip")

\* the keep-set hashes among the first n of hashes, in that order
RECURSIVE KeptOf(_, _, _)
KeptOf(hashes, keep, n) ==
    IF n = 0 THEN <<>>
    ELSE KeptOf(hashes, keep, n - 1)
         \o (IF hashes[n] \in keep THEN <<ToString(hashes[n])>> ELSE <<>>)

\* the parsed git log, newest first, reversed
RECURSIVE Reversed(_)
Reversed(seq) ==
    IF seq = <<>> THEN <<>> ELSE Append(Reversed(Tail(seq)), Head(seq))

(* C13: during the rewrite, git cherry-pick is attempted exactly once for  *)
(* each hash of the keep-set and for no other hash, oldest first (the      *)
(* reverse of the newest-first git log order); a failed cherry-pick is     *)
(* skipped and the walk goes on to every later hash; the kept counter is   *)
(* the number of cherry-picks that exited 0 and is at most the keep-count. *)
C13_PickEachKeptOnce ==
    (pc = "rr_pick" \/ (pc \in {"done", "rr_recover"} /\ rr.i > 0)) =>
        LET oldestFirst == [k \in 1 .. Len(rr.commits) |->
                               Reversed(rr.commits)[k].hash]
            attempts == PickAttempts
        IN  /\ rr.i <= Len(rr.commits)
            /\ (pc # "rr_pick") => rr.i = Len(rr.commits)
            /\ Len(attempts) = Len(KeptOf(oldestFirst, rr.keep_hashes, rr.i))
            /\ \A k \in 1 .. Len(attempts) :
                attempts[k][3] = KeptOf(oldestFirst, rr.keep_hashes, rr.i)[k]
            /\ (pc # "rr_pick") => Len(attempts) = Cardinality(rr.keep_hashes)
            /\ \A j, k \in 1 .. Len(attempts) :
                attempts[j][3] = attempts[k][3] => j = k
            /\ rr.kept = Len(rr.picked)
            /\ rr.kept + CountCmd(cmds, "cherry-pick") = 2 * Len(attempts)
            /\ rr.kept <= rr.num_to_keep

\* the walk is over: the older of two kept commits failed to cherry-pick
\* and the newer one was picked after it
C13_Witness ==
    /\ pc = "done"
    /\ rr.ret = "True"
    /\ Cardinality(rr.keep_hashes) = 2
    /\ rr.kept = 1
    /\ Len(PickAttempts) = 2
    /\ PickAttempts[2][3] = ToString(rr.picked[1])

(* C11: if any step of remove_random_commits after the confirmation        *)
(* raises, whatever the exception, the call runs git checkout main and     *)
(* then git branch -D temp_new_history before it returns False.            *)
C11_RecoveryOnAnyRaise ==
    (pc = "done" /\ rr.raised # "none") =>
        /\ rr.ret = "False"
        /\ Len(cmds) >= 2
        /\ cmds[Len(cmds) - 1] = <<"git", "checkout", "main">>
        /\ cmds[Len(cmds)] = <<"git", "branch", "-D", Temp>>

\* the same, for the steps run with check=True only
RecoveryOnCalledProcessError ==
    (pc = "done" /\ rr.raised = "CalledProcessError") =>
        /\ rr.ret = "False"
        /\ Len(cmds) >= 2
        /\ cmds[Len(cmds) - 1] = <<"git", "checkout", "main">>
        /\ cmds[Len(cmds)] = <<"git", "branch", "-D", Temp>>

(* C15: whenever remove_random_commits reaches the sampling step, the      *)
(* keep-count is at most the number of candidate commits left by the       *)
(* filter, so random.sample cannot fail; once sampled, the keep-set is a   *)
(* set of exactly keep-count candidates.                                   *)
C15_SampleWithinCandidates ==
    /\ pc = "rr_sample" => rr.num_to_keep <= Len(rr.commits)
    /\ rr.raised # "ValueError"
    /\ pc \in {"rr_orphan", "rr_rm", "rr_pick"} =>
        /\ rr.keep_hashes \subseteq Hashes(rr.commits)
        /\ Cardinality(rr.keep_hashes) = rr.num_to_keep

====
